---- MODULE Spec2Model ----
(***************************************************************************)
(* Model of sakurai_nmf/matrix_factorization/matrix_factorization.py: the  *)
(* three entry operations semi_nmf, nonlin_semi_nmf and softmax_nmf, the   *)
(* shape validator _check_shape, the orientation handling and the dispatch *)
(* to the immediate (NumPy) or the deferred (tf.py_func) backend.          *)
(*                                                                         *)
(* A matrix is a sequence of rows.  Its entries are symbolic values        *)
(* <<name, i, j>>, all distinct, so a transposition or an exchange of two  *)
(* matrices is always visible; <<"nan",0,0>> and <<"inf",0,0>> are the     *)
(* non-finite values.                                                      *)
(***************************************************************************)
EXTENDS Integers, Sequences, FiniteSets, TLC

VARIABLES
    args,          \* the arguments of the call
    pc,            \* lifecycle of the call
    entry,         \* the entry operation that was called
    error,         \* the exception that ended the call or the materialization
    validated,     \* results of the evaluations of _check_shape
    kernel_calls,  \* invocations of the bound solver callable
    graph,         \* tf.py_func nodes built
    result,        \* value returned on the immediate path, <<u, v>>
    tensors,       \* tensors returned on the deferred path, <<tf_u, tf_v>>
    fetches,       \* returned tensors the materialization step asked for
    delivered      \* values the materialization step handed to its consumer

vars == <<args, pc, entry, error, validated, kernel_calls, graph, result,
          tensors, fetches, delivered>>

\* ---------------------------------------------------------------- bounds
MaxDim == 2
MaxCalc == 2

\* -------------------------------------------------------------- matrices
NaN == <<"nan", 0, 0>>
Inf == <<"inf", 0, 0>>

IsFinite(x) == x[1] \notin {"nan", "inf"}

Mat(name, r, c) == [i \in 1..r |-> [j \in 1..c |-> <<name, i, j>>]]

Rows(m) == Len(m)
Cols(m) == Len(m[1])

\* ndarray.shape / Tensor.shape of a 2-D value
Shape(m) == <<Len(m), Len(m[1])>>

\* ndarray.T and the value of tf.transpose on a 2-D value
Transpose(m) == [j \in 1..Cols(m) |-> [i \in 1..Rows(m) |-> m[i][j]]]

AllFinite(m) == \A i \in 1..Rows(m) : \A j \in 1..Cols(m) : IsFinite(m[i][j])

\* ------------------------------------------------------ module constants
BATCH_FIRST == TRUE

\* int(use_bias)
int(b) == IF b THEN 1 ELSE 0

\* ------------------------------------------------------- shape validator
_check_shape_and(a, u, v, use_bias) ==
    LET a_shape == Shape(a)
        u_shape == Shape(u)
        v_shape == Shape(v)
    IN  (a_shape[1] = u_shape[1]) /\
        (a_shape[2] = v_shape[2]) /\
        (u_shape[2] = v_shape[1] + int(use_bias))

_check_shape(a, u, v, use_bias) ==
    LET a_shape == Shape(a)
        u_shape == Shape(u)
        v_shape == Shape(v)
    IN  (a_shape[1] = u_shape[1]) \/
        (a_shape[2] = v_shape[2]) \/
        (u_shape[2] = v_shape[1] + int(use_bias))

\* ------------------------------------------------------------ signatures
\* Keyword parameters of the three entry operations.  A call that passes a
\* keyword outside the signature is rejected when the arguments are bound.
CommonParams == {"use_bias", "use_tf", "data_format", "num_iters", "rcond",
                 "eps", "alpha", "beta"}

semi_nmf_params == CommonParams \cup {"first_nneg"}

nonlin_semi_nmf_params == CommonParams \cup
                          {"first_nneg", "num_calc_u", "num_calc_v"}

softmax_nmf_params == CommonParams

CountNames == {"num_calc_u", "num_calc_v"}

Accepts(params) == DOMAIN args.kw \subseteq params

\* ------------------------------------------------- bound solver callable
\* functools.partial(solver, **keywords): the module and function it binds,
\* the names of the keywords it fixes and the values of the two counts.
NoCounts == [n \in {} |-> 1]

Partial(module, func, keywords, counts) ==
    [module |-> module, func |-> func, keywords |-> keywords,
     counts |-> counts]

_semi_nmf(use_bias) ==
    IF use_bias
    THEN Partial("np_biased_nmf", "semi_nmf",
                 {"alpha", "beta", "rcond", "eps", "num_iters", "first_nneg"},
                 NoCounts)
    ELSE Partial("np_nmf", "semi_nmf",
                 {"rcond", "eps", "num_iters", "first_nneg"},
                 NoCounts)

\* the value a count parameter has in the call: the keyword, else its default
Count(kw, n) == IF n \in DOMAIN kw THEN kw[n] ELSE 1

_nonlin_semi_nmf_swapped(use_bias, kw) ==
    LET counts == [n \in CountNames |->
                     IF n = "num_calc_u" THEN Count(kw, "num_calc_v")
                                         ELSE Count(kw, "num_calc_u")]
    IN  IF use_bias
        THEN Partial("np_biased_nmf", "nonlin_semi_nmf",
                     {"alpha", "beta", "rcond", "eps", "num_iters",
                      "num_calc_u", "num_calc_v", "first_nneg"}, counts)
        ELSE Partial("np_nmf", "nonlin_semi_nmf",
                     {"rcond", "eps", "num_iters",
                      "num_calc_u", "num_calc_v", "first_nneg"}, counts)

_nonlin_semi_nmf(use_bias, kw) ==
    LET counts == [n \in CountNames |-> Count(kw, n)]
    IN  IF use_bias
        THEN Partial("np_biased_nmf", "nonlin_semi_nmf",
                     {"alpha", "beta", "rcond", "eps", "num_iters",
                      "num_calc_u", "num_calc_v", "first_nneg"}, counts)
        ELSE Partial("np_nmf", "nonlin_semi_nmf",
                     {"rcond", "eps", "num_iters",
                      "num_calc_u", "num_calc_v", "first_nneg"}, counts)

_softmax_nmf(use_bias) ==
    IF use_bias
    THEN Partial("np_biased_nmf", "softmax_nmf",
                 {"alpha", "beta", "rcond", "eps", "num_iters"}, NoCounts)
    ELSE Partial("np_nmf", "softmax_nmf",
                 {"rcond", "eps", "num_iters"}, NoCounts)

\* ---------------------------------------------------------- solver kernel
\* The kernels live in np_nmf / np_biased_nmf; the dispatch layer only calls
\* them.  What a kernel does at an invocation is a choice among stubs: the
\* identity, two that put a non-finite entry in one output, one that returns
\* other shapes and one that raises.
Stubs == {"identity", "nan_left", "inf_right", "reshape", "raise"}

Poison(m, x) == [m EXCEPT ![1][1] = x]

Kernel(stub, a, u, v) ==
    CASE stub = "identity"  -> [raised |-> FALSE, u |-> u, v |-> v]
      [] stub = "nan_left"  -> [raised |-> FALSE, u |-> Poison(u, NaN), v |-> v]
      [] stub = "inf_right" -> [raised |-> FALSE, u |-> u, v |-> Poison(v, Inf)]
      [] stub = "reshape"   -> [raised |-> FALSE,
                                u |-> Mat("u'", Rows(u) + 1, Cols(u)),
                                v |-> Mat("v'", Rows(v), Cols(v) + 1)]
      [] stub = "raise"     -> [raised |-> TRUE, u |-> <<>>, v |-> <<>>]

\* one invocation solver(a=a, u=u, v=v) of the bound callable, as logged
Invoke(solver, stub, a, u, v) ==
    LET out == Kernel(stub, a, u, v)
    IN  [func |-> solver, a |-> a, u |-> u, v |-> v,
         raised |-> out.raised, out_u |-> out.u, out_v |-> out.v]

\* ------------------------------------------------------- graph primitives
\* static shape of a tensor of unknown rank
Unknown == <<>>

Reverse(s) == [i \in 1..Len(s) |-> s[Len(s) + 1 - i]]

\* the i-th output of a tf.py_func node
py_func_output(i) ==
    [out |-> i, transposed |-> FALSE, checked |-> FALSE, message |-> "",
     shape |-> Unknown]

tf_transpose(t) ==
    [t EXCEPT !.transposed = ~@, !.shape = Reverse(@)]

tf_check_numerics_noop(t, message) == t

tf_check_numerics(t, message) ==
    [t EXCEPT !.checked = TRUE, !.message = message]

set_shape_noop(t, shape) == t

set_shape(t, shape) ==
    [t EXCEPT !.shape = IF @ = Unknown THEN shape ELSE @]

\* tf.py_func(func, inp, Tout): the node; its outputs have unknown shape
py_func(func, inp) ==
    [func |-> func, inp |-> inp, Tout |-> <<"float64", "float64">>,
     shape |-> Unknown]

\* --------------------------------------------------------------- outcomes
Outcome(p, e, k, g, r, t) ==
    [pc |-> p, error |-> e, kernel_calls |-> k, graph |-> g, result |-> r,
     tensors |-> t]

Raise(exc) == Outcome("raised", exc, <<>>, <<>>, <<>>, <<>>)

Immediate_unswapped(solver, stub) ==
    IF args.data_format = BATCH_FIRST
    THEN LET c   == Invoke(solver, stub, Transpose(args.a), Transpose(args.v),
                      Transpose(args.u))
             u_t == c.out_u
             v_t == c.out_v
         IN  IF c.raised
             THEN Outcome("raised", "SolverKernelError", <<c>>, <<>>, <<>>, <<>>)
             ELSE Outcome("computed", "", <<c>>, <<>>,
                          <<Transpose(u_t), Transpose(v_t)>>, <<>>)
    ELSE LET c == Invoke(solver, stub, args.a, args.u, args.v)
         IN  IF c.raised
             THEN Outcome("raised", "SolverKernelError", <<c>>, <<>>, <<>>, <<>>)
             ELSE Outcome("computed", "", <<c>>, <<>>, <<c.out_u, c.out_v>>, <<>>)

Immediate_untransposed(solver, stub) ==
    IF args.data_format = BATCH_FIRST
    THEN LET c   == Invoke(solver, stub, Transpose(args.a), Transpose(args.v),
                      Transpose(args.u))
             u_t == c.out_u
             v_t == c.out_v
         IN  IF c.raised
             THEN Outcome("raised", "SolverKernelError", <<c>>, <<>>, <<>>, <<>>)
             ELSE Outcome("computed", "", <<c>>, <<>>, <<v_t, u_t>>, <<>>)
    ELSE LET c == Invoke(solver, stub, args.a, args.u, args.v)
         IN  IF c.raised
             THEN Outcome("raised", "SolverKernelError", <<c>>, <<>>, <<>>, <<>>)
             ELSE Outcome("computed", "", <<c>>, <<>>, <<c.out_u, c.out_v>>, <<>>)

\* the immediate branch: isinstance(a, np.ndarray) and not use_tf
Immediate(solver, stub) ==
    IF args.data_format = BATCH_FIRST
    THEN LET c   == Invoke(solver, stub, Transpose(args.a), Transpose(args.v),
                      Transpose(args.u))
             u_t == c.out_u
             v_t == c.out_v
         IN  IF c.raised
             THEN Outcome("raised", "SolverKernelError", <<c>>, <<>>, <<>>, <<>>)
             ELSE Outcome("computed", "", <<c>>, <<>>,
                          <<Transpose(v_t), Transpose(u_t)>>, <<>>)
    ELSE LET c == Invoke(solver, stub, args.a, args.u, args.v)
         IN  IF c.raised
             THEN Outcome("raised", "SolverKernelError", <<c>>, <<>>, <<>>, <<>>)
             ELSE Outcome("computed", "", <<c>>, <<>>, <<c.out_u, c.out_v>>, <<>>)

\* a deferred branch that runs the kernel while it builds the node
Deferred_eager(solver) ==
    LET u_shape == Shape(args.u)
        v_shape == Shape(args.v)
    IN  IF args.data_format = BATCH_FIRST
        THEN LET inp    == <<Transpose(args.a), Transpose(args.v),
                             Transpose(args.u)>>
                 node   == py_func(solver, inp)
                 c      == Invoke(solver, "identity", inp[1], inp[2], inp[3])
                 tf_u_t == py_func_output(1)
                 tf_v_t == py_func_output(2)
                 tf_u   == tf_check_numerics(tf_transpose(tf_v_t), "u")
                 tf_v   == tf_check_numerics(tf_transpose(tf_u_t), "v")
             IN  Outcome("graph-building", "", <<c>>, <<node>>, <<>>,
                         <<set_shape(tf_u, u_shape), set_shape(tf_v, v_shape)>>)
        ELSE LET node == py_func(solver, <<args.a, args.u, args.v>>)
                 c    == Invoke(solver, "identity", args.a, args.u, args.v)
                 tf_u == tf_check_numerics(py_func_output(1), "u")
                 tf_v == tf_check_numerics(py_func_output(2), "v")
             IN  Outcome("graph-building", "", <<c>>, <<node>>, <<>>,
                         <<set_shape(tf_u, u_shape), set_shape(tf_v, v_shape)>>)

\* the deferred branch: use_tf; it builds the node and invokes nothing
Deferred(solver) ==
    LET u_shape == Shape(args.u)
        v_shape == Shape(args.v)
    IN  IF args.data_format = BATCH_FIRST
        THEN LET node   == py_func(solver, <<Transpose(args.a),
                                   Transpose(args.v), Transpose(args.u)>>)
                 tf_u_t == py_func_output(1)
                 tf_v_t == py_func_output(2)
                 tf_u   == tf_check_numerics(tf_transpose(tf_v_t), "u")
                 tf_v   == tf_check_numerics(tf_transpose(tf_u_t), "v")
             IN  Outcome("graph-building", "", <<>>, <<node>>, <<>>,
                         <<set_shape(tf_u, u_shape), set_shape(tf_v, v_shape)>>)
        ELSE LET node == py_func(solver, <<args.a, args.u, args.v>>)
                 tf_u == tf_check_numerics(py_func_output(1), "u")
                 tf_v == tf_check_numerics(py_func_output(2), "v")
             IN  Outcome("graph-building", "", <<>>, <<node>>, <<>>,
                         <<set_shape(tf_u, u_shape), set_shape(tf_v, v_shape)>>)

Dispatch_fallthrough(solver, stub) ==
    IF args.is_ndarray /\ ~args.use_tf
    THEN Immediate(solver, stub)
    ELSE Deferred(solver)

\* the three-way dispatch that ends every entry operation
Dispatch(solver, stub) ==
    IF args.is_ndarray /\ ~args.use_tf
    THEN Immediate(solver, stub)
    ELSE IF args.use_tf
         THEN Deferred(solver)
         ELSE Raise("NotImplementedError")

Return(o) ==
    /\ pc' = o.pc
    /\ error' = o.error
    /\ kernel_calls' = o.kernel_calls
    /\ graph' = o.graph
    /\ result' = o.result
    /\ tensors' = o.tensors

\* ------------------------------------------------------------------ state
Keywords == UNION {[S -> 1..MaxCalc] : S \in SUBSET CountNames}

Init ==
    /\ \E ar, ac, ur, uc, vr, vc \in 1..MaxDim :
       \E use_bias, use_tf, is_ndarray, data_format \in BOOLEAN :
       \E kw \in Keywords :
          args = [a |-> Mat("a", ar, ac), u |-> Mat("u", ur, uc),
                  v |-> Mat("v", vr, vc), use_bias |-> use_bias,
                  use_tf |-> use_tf, is_ndarray |-> is_ndarray,
                  data_format |-> data_format, kw |-> kw]
    /\ pc = "idle"
    /\ entry = "none"
    /\ error = ""
    /\ validated = <<>>
    /\ kernel_calls = <<>>
    /\ graph = <<>>
    /\ result = <<>>
    /\ tensors = <<>>
    /\ fetches = {}
    /\ delivered = {}

\* ------------------------------------------------------- entry operations
\* Each action is one call of the entry operation, from the binding of its
\* arguments to its return or its exception; stub is what the kernel does
\* if the call invokes it.
semi_nmf_unchecked ==
    /\ pc = "idle"
    /\ entry' = "semi_nmf"
    /\ validated' = <<>>
    /\ IF ~Accepts(semi_nmf_params)
       THEN Return(Raise("TypeError"))
       ELSE \E stub \in Stubs :
               Return(Dispatch(_semi_nmf(args.use_bias), stub))
    /\ UNCHANGED <<args, fetches, delivered>>

semi_nmf ==
    /\ pc = "idle"
    /\ entry' = "semi_nmf"
    /\ IF ~Accepts(semi_nmf_params)
       THEN validated' = <<>> /\ Return(Raise("TypeError"))
       ELSE LET ok == _check_shape(args.a, args.u, args.v, args.use_bias)
            IN  /\ validated' = <<ok>>
                /\ IF ~ok
                   THEN Return(Raise("AssertionError"))
                   ELSE \E stub \in Stubs :
                           Return(Dispatch(_semi_nmf(args.use_bias), stub))
    /\ UNCHANGED <<args, fetches, delivered>>

nonlin_semi_nmf ==
    /\ pc = "idle"
    /\ entry' = "nonlin_semi_nmf"
    /\ IF ~Accepts(nonlin_semi_nmf_params)
       THEN validated' = <<>> /\ Return(Raise("TypeError"))
       ELSE LET ok == _check_shape(args.a, args.u, args.v, args.use_bias)
            IN  /\ validated' = <<ok>>
                /\ IF ~ok
                   THEN Return(Raise("AssertionError"))
                   ELSE \E stub \in Stubs :
                           Return(Dispatch(_nonlin_semi_nmf(args.use_bias,
                                                            args.kw), stub))
    /\ UNCHANGED <<args, fetches, delivered>>

softmax_nmf_checked ==
    /\ pc = "idle"
    /\ entry' = "softmax_nmf"
    /\ IF ~Accepts(softmax_nmf_params)
       THEN validated' = <<>> /\ Return(Raise("TypeError"))
       ELSE LET ok == _check_shape(args.a, args.u, args.v, args.use_bias)
            IN  /\ validated' = <<ok>>
                /\ IF ~ok
                   THEN Return(Raise("AssertionError"))
                   ELSE \E stub \in Stubs :
                           Return(Dispatch(_softmax_nmf(args.use_bias), stub))
    /\ UNCHANGED <<args, fetches, delivered>>

softmax_nmf ==
    /\ pc = "idle"
    /\ entry' = "softmax_nmf"
    /\ validated' = <<>>
    /\ IF ~Accepts(softmax_nmf_params)
       THEN Return(Raise("TypeError"))
       ELSE \E stub \in Stubs :
               Return(Dispatch(_softmax_nmf(args.use_bias), stub))
    /\ UNCHANGED <<args, fetches, delivered>>

\* ---------------------------------------------------------- materialization
\* The execution of the graph, outside the entry operation: it runs the
\* py_func node and then, for each returned tensor it was asked for, the
\* transpose and the check_numerics that lead to it.
Value(t, c) ==
    LET o == IF t.out = 1 THEN c.out_u ELSE c.out_v
    IN  IF t.transposed THEN Transpose(o) ELSE o

Materialize ==
    /\ pc = "graph-building"
    /\ \E F \in SUBSET {1, 2}, stub \in Stubs :
        /\ F # {}
        /\ LET node == graph[1]
               c    == Invoke(node.func, stub,
                              node.inp[1], node.inp[2], node.inp[3])
           IN  /\ kernel_calls' = <<c>>
               /\ fetches' = F
               /\ IF c.raised
                  THEN /\ pc' = "failed"
                       /\ error' = "SolverKernelError"
                       /\ delivered' = {}
                  ELSE IF \E i \in F : tensors[i].checked
                                       /\ ~AllFinite(Value(tensors[i], c))
                       THEN /\ pc' = "failed"
                            /\ error' = "InvalidArgumentError"
                            /\ delivered' = {}
                       ELSE /\ pc' = "materialized"
                            /\ error' = ""
                            /\ delivered' =
                                 {[tensor |-> i, value |-> Value(tensors[i], c)]
                                    : i \in F}
    /\ UNCHANGED <<args, entry, validated, graph, result, tensors>>

Next == semi_nmf \/ nonlin_semi_nmf \/ softmax_nmf \/ Materialize

Spec == Init /\ [][Next]_vars

\* ================================================================ claims
\* The three dimension agreements, stated on the arguments of the call.
\* the kernel gave back the factors it received
IdentityKernel(c) == ~c.raised /\ c.out_u = c.u /\ c.out_v = c.v

ShapesAgree ==
    \/ Rows(args.a) = Rows(args.u)
    \/ Cols(args.a) = Cols(args.v)
    \/ Cols(args.u) = Rows(args.v) + (IF args.use_bias THEN 1 ELSE 0)

\* the call passed only keywords its entry operation has
Accepted ==
    \/ entry = "semi_nmf" /\ DOMAIN args.kw = {}
    \/ entry = "nonlin_semi_nmf"
    \/ entry = "softmax_nmf" /\ DOMAIN args.kw = {}

NothingDone ==
    kernel_calls = <<>> /\ graph = <<>> /\ result = <<>> /\ tensors = <<>>

\* C1: the shape validator returns true if and only if at least one of
\* rows(A) = rows(U), cols(A) = cols(V), cols(U) = rows(V) + (1 if use_bias
\* else 0) holds, for every shape of A, U, V and both values of use_bias.
C1_ValidatorIffSomeAgreement ==
    \A i \in DOMAIN validated : validated[i] <=> ShapesAgree

\* the validator answered true through the first agreement alone
C1_Witness ==
    /\ validated = <<TRUE>>
    /\ Rows(args.a) = Rows(args.u)
    /\ Cols(args.a) # Cols(args.v)
    /\ Cols(args.u) # Rows(args.v) + (IF args.use_bias THEN 1 ELSE 0)

\* C2: in semi_nmf and nonlin_semi_nmf, whatever the backend and the
\* orientation, when none of the three agreements holds the call fails with
\* the assertion (shape) error, and no solver callable was invoked, no graph
\* node was built and nothing was returned.
C2_ShapeErrorBeforeAnyWork ==
    (entry \in {"semi_nmf", "nonlin_semi_nmf"} /\ Accepted /\ ~ShapesAgree)
        => (pc = "raised" /\ error = "AssertionError" /\ NothingDone)

C2_Witness ==
    /\ entry = "semi_nmf"
    /\ error = "AssertionError"
    /\ args.use_tf
    /\ NothingDone

\* C3: in sample-first orientation the kernel receives (A transposed,
\* left = V transposed, right = U transposed), the returned U' is the
\* transpose of the kernel's right output and V' the transpose of its left
\* output, so with the identity kernel the call returns (U, V) elementwise,
\* not exchanged; the materialized values of the deferred path are the same.
C3_OrientationRoundTrip ==
    (args.data_format /\ pc \in {"computed", "materialized"}) =>
        LET c == kernel_calls[1]
        IN  /\ c.a = Transpose(args.a)
            /\ c.u = Transpose(args.v)
            /\ c.v = Transpose(args.u)
            /\ pc = "computed" =>
                  /\ result[1] = Transpose(c.out_v)
                  /\ result[2] = Transpose(c.out_u)
                  /\ IdentityKernel(c) => result = <<args.u, args.v>>
            /\ pc = "materialized" =>
                  \A d \in delivered :
                     /\ d.tensor = 1 => d.value = Transpose(c.out_v)
                     /\ d.tensor = 2 => d.value = Transpose(c.out_u)
                     /\ IdentityKernel(c) =>
                           d.value = (IF d.tensor = 1 THEN args.u ELSE args.v)

\* A:[1,2], U:[1,2], V:[2,2] through the identity kernel, sample-first
C3_Witness ==
    /\ pc = "computed"
    /\ args.data_format
    /\ IdentityKernel(kernel_calls[1])
    /\ Shape(args.a) = <<1, 2>>
    /\ Shape(args.u) = <<1, 2>>
    /\ Shape(args.v) = <<2, 2>>
    /\ result = <<args.u, args.v>>

\* The kernel output a returned tensor is computed from: in sample-first
\* orientation U' comes from the right output and V' from the left one.
SourceOf(i, c) ==
    IF args.data_format
    THEN (IF i = 1 THEN c.out_v ELSE c.out_u)
    ELSE (IF i = 1 THEN c.out_u ELSE c.out_v)

HasNonFinite(m) == \E i \in 1..Len(m) : \E j \in 1..Len(m[i]) :
                      m[i][j][1] \in {"nan", "inf"}

Oriented(m) == IF args.data_format THEN Transpose(m) ELSE m

ImmediateUngated ==
    pc = "computed" =>
        /\ result[1] = Oriented(SourceOf(1, kernel_calls[1]))
        /\ result[2] = Oriented(SourceOf(2, kernel_calls[1]))

\* C4 as stated: on the deferred path, whenever either kernel output
\* contains a NaN or infinite entry the materialization fails with the
\* numerical-instability error; on the immediate path the kernel output is
\* returned unchanged.
C4_AsStated ==
    /\ (pc \in {"materialized", "failed"} /\ ~kernel_calls[1].raised
          /\ (HasNonFinite(kernel_calls[1].out_u)
                \/ HasNonFinite(kernel_calls[1].out_v)))
       => (pc = "failed" /\ error = "InvalidArgumentError")
    /\ ImmediateUngated

\* C4 (amended): each returned tensor is gated on its own.  A
\* materialization fails with the numerical-instability error exactly when
\* the kernel output behind one of the tensors it fetches contains a NaN or
\* infinite entry, and then nothing is delivered; so no non-finite value
\* reaches a consumer of U' or V'.  A non-finite entry in the output behind a
\* tensor that is not fetched does not fail it.  The immediate path returns
\* the kernel output as it is, with no gate.
C4_ValidityGate ==
    /\ \A d \in delivered : ~HasNonFinite(d.value)
    /\ (pc \in {"materialized", "failed"} /\ ~kernel_calls[1].raised) =>
          ((\E i \in fetches : HasNonFinite(SourceOf(i, kernel_calls[1])))
             <=> (pc = "failed" /\ error = "InvalidArgumentError"
                    /\ delivered = {}))
    /\ ImmediateUngated

C4_Witness ==
    /\ pc = "failed"
    /\ error = "InvalidArgumentError"
    /\ fetches = {1}
    /\ HasNonFinite(SourceOf(1, kernel_calls[1]))
    /\ delivered = {}

\* C5: after a deferred call of any entry operation, in either orientation,
\* the static shape of the returned U' is the shape of the input U and that
\* of the returned V' the shape of the input V, never exchanged, while the
\* output shape of the opaque node itself is unknown.
C5_ShapeReattached ==
    pc \in {"graph-building", "materialized", "failed"} =>
        /\ tensors[1].shape = <<Rows(args.u), Cols(args.u)>>
        /\ tensors[2].shape = <<Rows(args.v), Cols(args.v)>>
        /\ \A n \in DOMAIN graph : graph[n].shape = <<>>

C5_Witness ==
    /\ pc = "graph-building"
    /\ entry = "softmax_nmf"
    /\ Shape(args.u) = <<2, 1>>
    /\ Shape(args.v) = <<1, 2>>
    /\ tensors[1].shape = <<2, 1>>
    /\ tensors[2].shape = <<1, 2>>

Unsupported == ~args.is_ndarray /\ ~args.use_tf

\* C6 as stated: for every entry operation, a call whose backend is neither
\* immediate nor deferred fails with the unsupported-backend error, with no
\* kernel invoked and no node built.
C6_AsStated ==
    (pc # "idle" /\ Accepted /\ Unsupported)
        => (pc = "raised" /\ error = "NotImplementedError" /\ NothingDone)

\* C6 (amended): a call whose backend is neither immediate nor deferred
\* never invokes the kernel and never builds a node; it fails with the
\* unsupported-backend error in softmax_nmf always, and in semi_nmf and
\* nonlin_semi_nmf when the shape validator accepts the shapes; when the
\* validator rejects them, these two fail with the shape error instead.
C6_UnsupportedBackend ==
    (pc # "idle" /\ Accepted /\ Unsupported) =>
        /\ pc = "raised"
        /\ NothingDone
        /\ (entry = "softmax_nmf" \/ ShapesAgree)
              => error = "NotImplementedError"
        /\ (entry # "softmax_nmf" /\ ~ShapesAgree)
              => error = "AssertionError"

C6_Witness ==
    /\ entry = "semi_nmf"
    /\ Unsupported
    /\ error = "NotImplementedError"
    /\ NothingDone

\* the solver callables bound by the call: those invoked and those embedded
Bound ==
    {kernel_calls[i].func : i \in DOMAIN kernel_calls}
        \cup {graph[i].func : i \in DOMAIN graph}

Requested(n) == IF n \in DOMAIN args.kw THEN args.kw[n] ELSE 1

NoCountForwarded ==
    \A f \in Bound :
        /\ DOMAIN f.counts = {}
        /\ f.keywords \cap {"num_calc_u", "num_calc_v"} = {}

NonlinearForwardsCounts ==
    entry = "nonlin_semi_nmf" =>
        \A f \in Bound :
            /\ {"num_calc_u", "num_calc_v"} \subseteq f.keywords
            /\ DOMAIN f.counts = {"num_calc_u", "num_calc_v"}
            /\ f.counts["num_calc_u"] = Requested("num_calc_u")
            /\ f.counts["num_calc_v"] = Requested("num_calc_v")

\* C7 as stated: nonlin_semi_nmf forwards exactly the two counts it was
\* given; semi_nmf given the same counts forwards neither and does not fail
\* because of them.
C7_AsStated ==
    /\ NonlinearForwardsCounts
    /\ (entry = "semi_nmf"
          /\ DOMAIN args.kw = {"num_calc_u", "num_calc_v"}) =>
          (NoCountForwarded /\ error # "TypeError")

\* C7 (amended): nonlin_semi_nmf forwards exactly the two counts it was
\* given (1 for one left out); semi_nmf never forwards a count, and since it
\* has no num_calc_u / num_calc_v parameter a call that passes one is
\* rejected with a TypeError before anything is done, not ignored.
C7_VariantIsolation ==
    /\ NonlinearForwardsCounts
    /\ entry = "semi_nmf" => NoCountForwarded
    /\ (entry = "semi_nmf" /\ DOMAIN args.kw # {}) =>
          (pc = "raised" /\ error = "TypeError" /\ NothingDone
             /\ validated = <<>>)

C7_Witness ==
    /\ entry = "nonlin_semi_nmf"
    /\ DOMAIN args.kw = {"num_calc_u", "num_calc_v"}
    /\ args.kw["num_calc_u"] = 2
    /\ args.kw["num_calc_v"] = 1
    /\ pc = "computed"
    /\ kernel_calls[1].func.counts["num_calc_u"] = 2
    /\ kernel_calls[1].func.counts["num_calc_v"] = 1

ShapePreservingKernel ==
    \A i \in DOMAIN kernel_calls :
        /\ ~kernel_calls[i].raised
        /\ Shape(kernel_calls[i].out_u) = Shape(kernel_calls[i].u)
        /\ Shape(kernel_calls[i].out_v) = Shape(kernel_calls[i].v)

\* C8: for every entry operation, backend, orientation and value of
\* use_bias, when the kernel returns matrices of the shapes it received the
\* returned U' has the shape of the input U and the returned V' the shape of
\* the input V; nothing is stripped or added with use_bias.
C8_ShapeInEqualsShapeOut ==
    ShapePreservingKernel =>
        /\ pc = "computed" =>
              /\ Shape(result[1]) = Shape(args.u)
              /\ Shape(result[2]) = Shape(args.v)
        /\ pc = "materialized" =>
              \A d \in delivered :
                 /\ Shape(d.value) =
                       Shape(IF d.tensor = 1 THEN args.u ELSE args.v)
                 /\ tensors[d.tensor].shape = Shape(d.value)

C8_Witness ==
    /\ pc = "computed"
    /\ args.use_bias
    /\ args.data_format
    /\ ShapePreservingKernel
    /\ Shape(args.a) = <<1, 2>>
    /\ Shape(args.u) = <<1, 2>>
    /\ Shape(args.v) = <<1, 2>>
    /\ Shape(result[1]) = <<1, 2>>
    /\ Shape(result[2]) = <<1, 2>>

\* C9: a deferred call returns in the state graph-building with a node
\* built and no kernel invocation; the kernel is invoked only by the later
\* materialization step, and a call is materialized only from
\* graph-building.  An immediate call that returns is in the single state
\* computed, with exactly one kernel invocation.
C9_Lifecycle ==
    /\ [](pc = "graph-building" =>
            (args.use_tf /\ kernel_calls = <<>> /\ Len(graph) = 1
               /\ Len(tensors) = 2))
    /\ [](pc = "computed" =>
            (~args.use_tf /\ Len(kernel_calls) = 1 /\ graph = <<>>
               /\ Len(result) = 2))
    /\ [](pc \in {"materialized", "failed"} => Len(kernel_calls) = 1)
    /\ [][pc' \in {"materialized", "failed"}
            => pc \in {"graph-building", pc'}]_vars
    /\ [][(args.use_tf /\ kernel_calls' # kernel_calls)
            => (pc = "graph-building"
                  /\ pc' \in {"materialized", "failed"})]_vars
    /\ [][pc = "computed" => pc' = "computed"]_vars

C9_Witness ==
    /\ pc = "materialized"
    /\ Len(kernel_calls) = 1
    /\ Len(graph) = 1

\* C10: softmax_nmf does not evaluate the shape validator: on shapes where
\* none of the three agreements holds, a softmax call with a supported
\* backend invokes the kernel (immediate) or builds the node (deferred) and
\* does not fail with the shape error, while semi_nmf and nonlin_semi_nmf
\* fail with it on the same shapes.
C10_SoftmaxSkipsValidation ==
    /\ (entry = "softmax_nmf" /\ Accepted /\ ~ShapesAgree) =>
          /\ validated = <<>>
          /\ error # "AssertionError"
          /\ (args.is_ndarray /\ ~args.use_tf) => Len(kernel_calls) = 1
          /\ args.use_tf => (pc # "raised" /\ Len(graph) = 1)
    /\ (entry \in {"semi_nmf", "nonlin_semi_nmf"} /\ Accepted
          /\ ~ShapesAgree) => (validated = <<FALSE>> /\ pc = "raised")

C10_Witness ==
    /\ entry = "softmax_nmf"
    /\ ~ShapesAgree
    /\ pc = "computed"
    /\ Len(kernel_calls) = 1

====
